---- MODULE Spec2Model ----
(***************************************************************************)
(* Membership reconciliation and activity storage of the Hive Ecuador      *)
(* Pulse bot: CommunityMemberManager (management/community_manager.py),    *)
(* DatabaseManager (database/manager.py), UserManager                      *)
(* (management/user_manager.py) and the follower fetch of HiveAPIClient.   *)
(*                                                                         *)
(* A table is the sequence of its rows in rowid order.  A timestamp is a   *)
(* tick of the clock `now`, which advances when an operation starts (no     *)
(* two operations read the same datetime.now()); a date is the day a tick  *)
(* falls on.  bot_logs holds the entries the running operation has         *)
(* written: the code never reads the table back.  The tags                 *)
(* string of a users row is the sequence of its comma-separated markers,   *)
(* a marker "kind:ts" being the record [kind, ts]; the marker written      *)
(* without a date ("previous_member") carries ts = NoDate.                 *)
(*                                                                         *)
(* Spec is the membership and storage machine.  SpecAnalytics is the       *)
(* activity scoring of AnalyticsCollector (analytics/collector.py): the    *)
(* per-account collection over an account history, and the statistics,     *)
(* ranking and patacoins computed over a list of UserActivity.             *)
(* SpecStore is DatabaseManager.reset_user_tracking called on its own.     *)
(* SpecScheduler is the report cycle (create_daily_report) as the threads  *)
(* of ReportScheduler (management/scheduler.py) run it on the shared       *)
(* store.                                                                  *)
(***************************************************************************)
EXTENDS Integers, Sequences, FiniteSets, TLC

\* ---------------------------------------------------------------- bounds
MaxOps == 2
MaxFailures == 1

TicksPerDay == 2
\* the longest account history the chain serves
MaxHistory == 3
\* the largest count of a UserActivity handed to the statistics
MaxCount == 1

Usernames == {"alice", "bob"}
\* the hard-coded list get_community_followers falls back to
FallbackMembers == {"bob"}

NoDate == -1
NoUser == ""
Timestamps == 0..MaxOps
Day(t) == t \div TicksPerDay
Dates == {Day(t) : t \in Timestamps}

\* ------------------------------------------------------------- variables
VARIABLES
  users,            \* table users
  daily_activity,   \* table daily_activity
  bot_logs,         \* table bot_logs: the MembershipChange entries
  now,              \* datetime.now()
  pc,               \* position of the running operation
  current_followers, tracked_members, new_members, left_members,
  todo,             \* usernames the current for-loop has still to visit
  added_count, removed_count, rejoined_count,
  result,           \* what the last sync_community_members returned
  fetch_failed,     \* the last follower fetch fell back after an API failure
  added, removed, rejoined,   \* usernames whose handler returned True
  failures,         \* <<username, handler, kind>> of the calls that failed
  users0, daily0,   \* the store when the operation began
  computed,         \* the date the last collection was asked for and the
                    \* records it had computed before storing them
  user_activities,  \* what get_user_activities_blockchain_wide returned
  account_history,  \* the operations the chain holds for one account
  raw_activities,   \* what the API client returned for the last query
  activity,         \* the UserActivity get_user_blockchain_activity returned
  counted,          \* date -> the operations counted for that date
  activities,       \* a list of UserActivity handed to the statistics
  top_performers,   \* what identify_top_performers returned
  community_stats,  \* what calculate_community_stats_from_members returned
  patacoins,        \* username -> what _get_patacoins_for_user returned
  community_stats_table,  \* table community_stats
  returned,         \* what the last call of a method returning bool returned
  jobs              \* thread -> the create_daily_report it is running

vars == <<users, daily_activity, bot_logs, now, pc, current_followers,
          tracked_members, new_members, left_members, todo, added_count,
          removed_count, rejoined_count, result, fetch_failed, added,
          removed, rejoined, failures, users0, daily0, computed,
          user_activities, account_history, raw_activities, activity,
          counted, activities, top_performers, community_stats, patacoins,
          community_stats_table, returned, jobs>>

syncVars == <<current_followers, tracked_members, new_members, left_members,
              todo, added_count, removed_count, rejoined_count, added,
              removed, rejoined, failures, users0, daily0,
              fetch_failed>>

collectVars == <<computed, user_activities>>

runVars == <<returned, jobs>>

analyticsVars == <<account_history, raw_activities, activity, counted,
                   activities, top_performers, community_stats, patacoins,
                   community_stats_table>>

\* ------------------------------------------------------- sequence helpers
Range(s) == {s[i] : i \in DOMAIN s}

RECURSIVE SeqOfSet(_)
SeqOfSet(S) == IF S = {} THEN <<>>
               ELSE LET x == CHOOSE y \in S : TRUE
                    IN <<x>> \o SeqOfSet(S \ {x})

IsPrefix(s, t) == /\ Len(s) <= Len(t)
                  /\ \A i \in 1..Len(s) : s[i] = t[i]

\* ------------------------------------------------------------ tags string
Marker(kind, ts) == [kind |-> kind, ts |-> ts]

\* fault injection: any recorded marker counts as an earlier membership
HasPreviousMembership_AnyMarker(tags) == tags # <<>>

\* "left:" in tags or "previous_member:" in tags
HasPreviousMembership(tags) ==
  \E i \in DOMAIN tags :
     \/ tags[i].kind = "left"
     \/ tags[i].kind = "previous_member" /\ tags[i].ts # NoDate

\* "joined:" in tags is a substring test: "rejoined:" contains it too
ContainsJoined(tags) ==
  \E i \in DOMAIN tags : tags[i].kind \in {"joined", "rejoined"}

\* the first tag that startswith("joined:"), else None
LastJoinDate(tags) ==
  IF ContainsJoined(tags) /\ \E i \in DOMAIN tags : tags[i].kind = "joined"
  THEN tags[CHOOSE i \in DOMAIN tags :
               /\ tags[i].kind = "joined"
               /\ \A j \in 1..(i-1) : tags[j].kind # "joined"].ts
  ELSE NoDate

\* ------------------------------------------------------------ users table
UserRow(u, created, updated, active, tags) ==
  [username |-> u, created_at |-> created, updated_at |-> updated,
   is_active |-> active, tags |-> tags]

RowsOf(tbl, u) == SelectSeq(tbl, LAMBDA r : r.username = u)
HasRow(tbl, u) == \E i \in DOMAIN tbl : tbl[i].username = u
\* cursor.fetchone() of SELECT ... WHERE username = ?
RowOf(tbl, u) == tbl[CHOOSE i \in DOMAIN tbl :
                        /\ tbl[i].username = u
                        /\ \A j \in 1..(i-1) : tbl[j].username # u]

\* fault injection: a plain INSERT into a table without the UNIQUE constraint
InsertOrReplaceUser_PlainInsert(tbl, row) == Append(tbl, row)

\* INSERT OR REPLACE INTO users: username is UNIQUE, so the rows in conflict
\* are deleted and the new row is inserted
InsertOrReplaceUser(tbl, row) ==
  Append(SelectSeq(tbl, LAMBDA r : r.username # row.username), row)

\* fault injection: the query returns no row
get_tracked_users_None(tbl) == {}

\* SELECT username FROM users WHERE is_active = 1
get_tracked_users(tbl) == {tbl[i].username : i \in {j \in DOMAIN tbl : tbl[j].is_active}}

add_user(tbl, u, t) == InsertOrReplaceUser(tbl, UserRow(u, t, t, TRUE, <<>>))

remove_user(tbl, u, t) ==
  [i \in DOMAIN tbl |->
     IF tbl[i].username = u
     THEN [tbl[i] EXCEPT !.is_active = FALSE, !.updated_at = t]
     ELSE tbl[i]]

\* fault injection: the row is written without its joined: tag
add_user_with_join_date_NoTag(tbl, u, join_date) ==
  InsertOrReplaceUser(tbl, UserRow(u, join_date, join_date, TRUE, <<>>))

add_user_with_join_date(tbl, u, join_date) ==
  InsertOrReplaceUser(tbl,
     UserRow(u, join_date, join_date, TRUE, <<Marker("joined", join_date)>>))

\* fault injection: the left: marker replaces the tags instead of being appended
deactivate_user_with_leave_date_Overwrite(tbl, u, leave_date) ==
  [i \in DOMAIN tbl |->
     IF tbl[i].username = u
     THEN [tbl[i] EXCEPT !.is_active = FALSE, !.updated_at = leave_date,
                         !.tags = <<Marker("left", leave_date)>>]
     ELSE tbl[i]]

deactivate_user_with_leave_date(tbl, u, leave_date) ==
  LET current_tags == IF HasRow(tbl, u) THEN RowOf(tbl, u).tags ELSE <<>>
      new_tags == Append(current_tags, Marker("left", leave_date))
  IN [i \in DOMAIN tbl |->
        IF tbl[i].username = u
        THEN [tbl[i] EXCEPT !.is_active = FALSE, !.updated_at = leave_date,
                            !.tags = new_tags]
        ELSE tbl[i]]

ResetTags(new_join_date, previous_join_date) ==
  <<Marker("rejoined", new_join_date),
    Marker("previous_member", previous_join_date)>>

reset_user_tracking(tbl, u, new_join_date, previous_join_date) ==
  [i \in DOMAIN tbl |->
     IF tbl[i].username = u
     THEN [tbl[i] EXCEPT !.is_active = TRUE, !.created_at = new_join_date,
                         !.updated_at = new_join_date,
                         !.tags = ResetTags(new_join_date, previous_join_date)]
     ELSE tbl[i]]

\* DELETE FROM daily_activity WHERE username = ?
DeleteActivityOf(tbl, u) == SelectSeq(tbl, LAMBDA r : r.username # u)

get_user_history(tbl, u) ==
  [has_previous_membership |-> HasPreviousMembership(RowOf(tbl, u).tags),
   last_join_date |-> LastJoinDate(RowOf(tbl, u).tags)]

MembershipChange(u, action, t, prev) ==
  [username |-> u, action |-> action, timestamp |-> t,
   previous_join_date |-> prev]

\* ------------------------------------------------------ daily_activity
ActivityRow(d, u, posts) == [date |-> d, username |-> u, posts_count |-> posts]

\* fault injection: the counts of the row in conflict are added to the new row
InsertOrReplaceActivity_Sum(tbl, row) ==
  LET old == SelectSeq(tbl, LAMBDA r : r.date = row.date /\ r.username = row.username)
  IN Append(SelectSeq(tbl, LAMBDA r : ~(r.date = row.date /\ r.username = row.username)),
            IF old = <<>> THEN row
            ELSE [row EXCEPT !.posts_count = row.posts_count + old[1].posts_count])

\* INSERT OR REPLACE INTO daily_activity: UNIQUE(date, username)
InsertOrReplaceActivity(tbl, row) ==
  Append(SelectSeq(tbl, LAMBDA r : ~(r.date = row.date /\ r.username = row.username)),
         row)

RECURSIVE store_user_activities(_, _)
store_user_activities(tbl, acts) ==
  IF acts = <<>> THEN tbl
  ELSE store_user_activities(InsertOrReplaceActivity(tbl, Head(acts)), Tail(acts))

\* ------------------------------------------------------- follower fetch
\* HiveAPIClient.get_community_followers: what it returns, and whether the
\* API calls behind it failed.  A failure never leaves the client: the
\* fallback list is returned when the calls fail, [] when they raise.
FollowerFetches ==
  {[followers |-> F, failed |-> FALSE] : F \in (SUBSET Usernames) \ {{}}}
    \cup {[followers |-> FallbackMembers, failed |-> FALSE],
          [followers |-> FallbackMembers, failed |-> TRUE],
          [followers |-> {}, failed |-> TRUE]}

\* ------------------------------------------------------------------ Init
InitTags == {<<Marker("joined", 0)>>,
             <<Marker("joined", 0), Marker("left", 0)>>,
             <<Marker("rejoined", 0), Marker("previous_member", 0), Marker("left", 0)>>}

\* a store the bot has left behind at tick 0: every row was written by
\* add_user_with_join_date, deactivate_user_with_leave_date or
\* reset_user_tracking
InitRow(u, tags) ==
  UserRow(u, 0, 0, ~(\E i \in DOMAIN tags : tags[i].kind = "left"), tags)

InitUsers ==
  UNION {{SeqOfSet({InitRow(u, f[u]) : u \in S}) : f \in [S -> InitTags]}
           : S \in SUBSET Usernames}

InitDaily(tbl) ==
  {<<>>, [i \in DOMAIN tbl |-> ActivityRow(0, tbl[i].username, 1)]}

\* the analytics values before any analytics call has been made
NothingComputed == [date |-> NoDate, records |-> <<>>]
NoActivity == [username |-> ""]
NothingCounted == [d \in {} |-> {}]
NoPerformers == [called |-> FALSE]
NoStats == [called |-> FALSE]

\* no call has returned / the call returned v
NoReturn == [called |-> FALSE]
Returned(v) == [called |-> TRUE, value |-> v]
\* the call made for username u returned v
ReturnedFor(u, v) == [called |-> TRUE, value |-> v, username |-> u]

\* the threads that call create_daily_report: the worker of the scheduler's
\* 'daily_report' job, and the caller of trigger_manual_report
Threads == {"daily_report", "manual"}
IdleJob == [pos |-> "idle", date |-> NoDate, followers |-> {}, synced |-> {},
            records |-> <<>>, stats |-> NoStats, top |-> NoPerformers]
NoJobs == [t \in Threads |-> IdleJob]
NoPatacoins == [u \in {} |-> 0]

ZeroResult == [total_followers |-> 0, total_tracked |-> 0, new_members |-> 0,
               left_members |-> 0, rejoined_members |-> 0]

Init ==
  /\ users \in InitUsers
  /\ daily_activity \in InitDaily(users)
  /\ bot_logs = <<>>
  /\ now = 0
  /\ pc = "idle"
  /\ current_followers = {} /\ tracked_members = {}
  /\ new_members = {} /\ left_members = {} /\ todo = {}
  /\ added_count = 0 /\ removed_count = 0 /\ rejoined_count = 0
  /\ result = ZeroResult
  /\ fetch_failed = FALSE
  /\ added = {} /\ removed = {} /\ rejoined = {} /\ failures = {}
  /\ users0 = users /\ daily0 = daily_activity
  /\ computed = NothingComputed /\ user_activities = <<>>
  /\ account_history = <<>> /\ raw_activities = <<>>
  /\ activity = NoActivity
  /\ counted = NothingCounted
  /\ activities = <<>>
  /\ top_performers = NoPerformers
  /\ community_stats = NoStats
  /\ patacoins = NoPatacoins
  /\ community_stats_table = <<>>
  /\ returned = NoReturn
  /\ jobs = NoJobs

Idle == pc \in {"idle", "synced", "forced", "collected", "reset"}

\* an operation may start: none is running and the clock can advance
CanStart == Idle /\ now < MaxOps

\* an operation that is not a collection leaves no collection to describe
NoCollect == computed' = NothingComputed /\ user_activities' = <<>>

\* an operation that has not returned
NoCall == returned' = NoReturn /\ UNCHANGED jobs

\* --------------------------------------------- sync_community_members
\* fault injection: every follower is taken as new
NewMembers_AllFollowers(F, T) == F

NewMembers(F, T) == F \ T

\* fault injection: no tracked member is taken as having left
LeftMembers_None(F, T) == {}

LeftMembers(F, T) == T \ F

SyncStart ==
  /\ CanStart
  /\ \E f \in FollowerFetches :
       /\ current_followers' = f.followers
       /\ fetch_failed' = f.failed
       /\ tracked_members' = get_tracked_users(users)
       /\ new_members' = NewMembers(f.followers, get_tracked_users(users))
       /\ left_members' = LeftMembers(f.followers, get_tracked_users(users))
       /\ todo' = NewMembers(f.followers, get_tracked_users(users))
  /\ added_count' = 0 /\ removed_count' = 0 /\ rejoined_count' = 0
  /\ added' = {} /\ removed' = {} /\ rejoined' = {} /\ failures' = {}
  /\ users0' = users /\ daily0' = daily_activity
  /\ bot_logs' = <<>>
  /\ pc' = "new"
  /\ now' = now + 1
  /\ NoCollect /\ NoCall
  /\ UNCHANGED <<users, daily_activity, result, analyticsVars>>

\* at most MaxFailures calls fail within one operation
CanFail == Cardinality(failures) < MaxFailures

\* _add_new_member(u): outcome is what the calls it makes do
AddOutcomes == {"ok", "no_account", "db_error", "log_error"}

AddNewMember(u, outcome) ==
  /\ users' = IF outcome \in {"ok", "log_error"}
              THEN add_user_with_join_date(users, u, now) ELSE users
  /\ bot_logs' = IF outcome = "ok"
                 THEN Append(bot_logs, MembershipChange(u, "joined", now, NoDate))
                 ELSE bot_logs
  /\ added' = IF outcome \in {"ok", "log_error"} THEN added \cup {u} ELSE added
  /\ added_count' = IF outcome \in {"ok", "log_error"}
                    THEN added_count + 1 ELSE added_count
  /\ failures' = IF outcome = "ok" THEN failures
                 ELSE failures \cup {<<u, "add", outcome>>}

SyncAddNew ==
  /\ pc = "new" /\ todo # {}
  /\ \E u \in todo, outcome \in AddOutcomes :
       /\ outcome = "ok" \/ CanFail
       /\ AddNewMember(u, outcome)
       /\ todo' = todo \ {u}
  /\ UNCHANGED <<daily_activity, now, pc, result, current_followers,
                 tracked_members, new_members, left_members, removed_count,
                 rejoined_count, removed, rejoined, users0, daily0,
                 fetch_failed, collectVars, runVars, analyticsVars>>

SyncBeginLeft ==
  /\ pc = "new" /\ todo = {}
  /\ pc' = "left" /\ todo' = left_members
  /\ UNCHANGED <<users, daily_activity, bot_logs, now, result,
                 current_followers, tracked_members, new_members, left_members,
                 added_count, removed_count, rejoined_count, added, removed,
                 rejoined, failures, users0, daily0,
                 fetch_failed, collectVars, runVars, analyticsVars>>

\* _handle_member_left(u)
LeftOutcomes == {"ok", "db_error", "log_error"}

SyncHandleLeft ==
  /\ pc = "left" /\ todo # {}
  /\ \E u \in todo, outcome \in LeftOutcomes :
       /\ outcome = "ok" \/ CanFail
       /\ users' = IF outcome # "db_error"
                   THEN deactivate_user_with_leave_date(users, u, now) ELSE users
       /\ bot_logs' = IF outcome = "ok"
                      THEN Append(bot_logs, MembershipChange(u, "left", now, NoDate))
                      ELSE bot_logs
       /\ removed' = IF outcome # "db_error" THEN removed \cup {u} ELSE removed
       /\ removed_count' = IF outcome # "db_error"
                           THEN removed_count + 1 ELSE removed_count
       /\ failures' = IF outcome = "ok" THEN failures
                      ELSE failures \cup {<<u, "left", outcome>>}
       /\ todo' = todo \ {u}
  /\ UNCHANGED <<daily_activity, now, pc, result, current_followers,
                 tracked_members, new_members, left_members, added_count,
                 rejoined_count, added, rejoined, users0, daily0,
                 fetch_failed, collectVars, runVars, analyticsVars>>

\* fault injection: the rejoin pass visits every username that has a row
SyncBeginRejoin_EveryRow ==
  /\ pc = "left" /\ todo = {}
  /\ pc' = "rejoin" /\ todo' = {users[i].username : i \in DOMAIN users}
  /\ UNCHANGED <<users, daily_activity, bot_logs, now, result,
                 current_followers, tracked_members, new_members, left_members,
                 added_count, removed_count, rejoined_count, added, removed,
                 rejoined, failures, users0, daily0,
                 fetch_failed, collectVars, runVars, analyticsVars>>

\* the third loop: for username in new_members
SyncBeginRejoin ==
  /\ pc = "left" /\ todo = {}
  /\ pc' = "rejoin" /\ todo' = new_members
  /\ UNCHANGED <<users, daily_activity, bot_logs, now, result,
                 current_followers, tracked_members, new_members, left_members,
                 added_count, removed_count, rejoined_count, added, removed,
                 rejoined, failures, users0, daily0,
                 fetch_failed, collectVars, runVars, analyticsVars>>

\* _check_and_handle_rejoined_member(u)
RejoinOutcomes == {"ok", "hist_error", "db_error", "log_error"}

\* the handler reaches reset_user_tracking
IsReturning(tbl, u, outcome) ==
  /\ outcome # "hist_error"
  /\ HasRow(tbl, u)
  /\ get_user_history(tbl, u).has_previous_membership

SyncCheckRejoined ==
  /\ pc = "rejoin" /\ todo # {}
  /\ \E u \in todo, outcome \in RejoinOutcomes :
       LET returning == IsReturning(users, u, outcome)
           applied == returning /\ outcome # "db_error"
           prev == IF returning THEN get_user_history(users, u).last_join_date
                   ELSE NoDate
       IN /\ outcome = "ok" \/ CanFail
          /\ users' = IF applied THEN reset_user_tracking(users, u, now, prev)
                      ELSE users
          /\ daily_activity' = IF applied THEN DeleteActivityOf(daily_activity, u)
                               ELSE daily_activity
          /\ bot_logs' = IF applied /\ outcome = "ok"
                         THEN Append(bot_logs, MembershipChange(u, "rejoined", now, prev))
                         ELSE bot_logs
          /\ rejoined' = IF applied THEN rejoined \cup {u} ELSE rejoined
          /\ rejoined_count' = IF applied THEN rejoined_count + 1 ELSE rejoined_count
          /\ failures' = IF outcome = "ok" \/ (~returning /\ outcome # "hist_error")
                         THEN failures
                         ELSE failures \cup {<<u, "rejoin", outcome>>}
          /\ todo' = todo \ {u}
  /\ UNCHANGED <<now, pc, result, current_followers, tracked_members,
                 new_members, left_members, added_count, removed_count, added,
                 removed, users0, daily0, fetch_failed, collectVars, runVars,
                 analyticsVars>>

SyncResult ==
  [total_followers |-> Cardinality(current_followers),
   total_tracked |-> Cardinality(tracked_members) + added_count - removed_count,
   new_members |-> added_count,
   left_members |-> removed_count,
   rejoined_members |-> rejoined_count]

SyncReturn ==
  /\ pc = "rejoin" /\ todo = {}
  /\ result' = SyncResult
  /\ pc' = "synced"
  /\ UNCHANGED <<users, daily_activity, bot_logs, now, syncVars,
                 collectVars, runVars, analyticsVars>>

\* --------------------------------------------- force_resync_all_members
\* clear_all_users(): DELETE FROM users, user_activities, daily_activity
clear_all_users(tbl) == <<>>

ForceResyncStart ==
  /\ CanStart
  /\ \E f \in FollowerFetches :
       /\ current_followers' = f.followers
       /\ fetch_failed' = f.failed
       /\ todo' = f.followers
  \* the three DELETEs run in one transaction; when it raises,
  \* clear_all_users returns False and the caller goes on
  /\ \E cleared \in BOOLEAN :
       /\ users' = IF cleared THEN clear_all_users(users) ELSE users
       /\ daily_activity' = IF cleared THEN clear_all_users(daily_activity)
                            ELSE daily_activity
       /\ failures' = IF cleared THEN {} ELSE {<<NoUser, "clear", "db_error">>}
  /\ tracked_members' = {} /\ new_members' = {} /\ left_members' = {}
  /\ added_count' = 0 /\ removed_count' = 0 /\ rejoined_count' = 0
  /\ added' = {} /\ removed' = {} /\ rejoined' = {}
  /\ users0' = users /\ daily0' = daily_activity
  /\ bot_logs' = <<>> /\ result' = ZeroResult
  /\ pc' = "force"
  /\ now' = now + 1
  /\ NoCollect /\ NoCall
  /\ UNCHANGED analyticsVars

ForceAddNew ==
  /\ pc = "force" /\ todo # {}
  /\ \E u \in todo, outcome \in AddOutcomes :
       /\ outcome = "ok" \/ CanFail
       /\ AddNewMember(u, outcome)
       /\ todo' = todo \ {u}
  /\ UNCHANGED <<daily_activity, now, pc, result, current_followers,
                 tracked_members, new_members, left_members, removed_count,
                 rejoined_count, removed, rejoined, users0, daily0,
                 fetch_failed, collectVars, runVars, analyticsVars>>

\* return True: reached whenever no exception leaves the try block, and
\* none does
ForceResyncReturn ==
  /\ pc = "force" /\ todo = {}
  /\ returned' = Returned(TRUE)
  /\ pc' = "forced"
  /\ UNCHANGED <<users, daily_activity, bot_logs, now, result, syncVars,
                 collectVars, jobs, analyticsVars>>

\* an operation that is not a sync leaves no sync in progress to describe
NoSync ==
  /\ current_followers' = {} /\ tracked_members' = {}
  /\ new_members' = {} /\ left_members' = {} /\ todo' = {}
  /\ added_count' = 0 /\ removed_count' = 0 /\ rejoined_count' = 0
  /\ added' = {} /\ removed' = {} /\ rejoined' = {}
  /\ fetch_failed' = FALSE
  /\ users0' = users /\ daily0' = daily_activity
  /\ bot_logs' = <<>> /\ result' = ZeroResult

\* ------------------------------------------- UserManager add / remove
ManualAddUser ==
  /\ CanStart
  /\ \E u \in Usernames \ get_tracked_users(users) :
       users' = add_user(users, u, now + 1)
  /\ pc' = "idle"
  /\ now' = now + 1
  /\ NoSync /\ NoCollect /\ NoCall
  /\ failures' = {}
  /\ UNCHANGED <<daily_activity, analyticsVars>>

ManualRemoveUser ==
  /\ CanStart
  /\ \E u \in get_tracked_users(users) :
       users' = remove_user(users, u, now + 1)
  /\ pc' = "idle"
  /\ now' = now + 1
  /\ NoSync /\ NoCollect /\ NoCall
  /\ failures' = {}
  /\ UNCHANGED <<daily_activity, analyticsVars>>

\* ------------------------------- get_user_activities_blockchain_wide
PostCounts == 0..1

\* fault injection: the join date is read from created_at
get_member_join_date_CreatedAt(tbl, u) ==
  IF HasRow(tbl, u) THEN RowOf(tbl, u).created_at ELSE NoDate

\* get_member_join_date: user_info.get('join_date'); the users table has no
\* column of that name
get_member_join_date(tbl, u) == NoDate

ShouldCollect(join_date, d) ==
  IF join_date # NoDate THEN d * TicksPerDay >= join_date ELSE TRUE

\* the tracked users in the order SELECT returns them
TrackedRows(tbl) == SelectSeq(tbl, LAMBDA r : r.is_active)

CollectedActivities(tbl, d, posts) ==
  LET eligible == SelectSeq(TrackedRows(tbl),
                     LAMBDA r : ShouldCollect(get_member_join_date(tbl, r.username), d))
  IN [i \in DOMAIN eligible |->
        ActivityRow(d, eligible[i].username, posts[eligible[i].username])]

\* the dates a collection is asked for: a day of the clock, or the day
\* before the oldest row of the store
CollectDates == Dates \cup {Day(0) - 1}

\* what goes wrong in one collection: nothing, the activity query of one
\* tracked user (the client returns []), or the INSERT of one user's record
CollectOutcomes(tbl) ==
  {[kind |-> "ok", username |-> ""]}
    \cup {[kind |-> k, username |-> u] :
             k \in {"api_error", "db_error"}, u \in get_tracked_users(tbl)}

\* get_user_activities_blockchain_wide(date).  The INSERTs of
\* store_user_activities run in one transaction: when one raises, the
\* connection rolls back, the exception reaches the collector, and the
\* collector returns [].
CollectActivities ==
  /\ CanStart
  /\ \E d \in CollectDates, posts \in [Usernames -> PostCounts],
        o \in CollectOutcomes(users) :
       LET counts == IF o.kind = "api_error"
                     THEN [posts EXCEPT ![o.username] = 0] ELSE posts
           acts == CollectedActivities(users, d, counts)
           stored == o.kind # "db_error"
       IN /\ computed' = [date |-> d, records |-> acts]
          /\ daily_activity' =
                IF stored THEN store_user_activities(daily_activity, acts)
                ELSE daily_activity
          /\ user_activities' = IF stored THEN acts ELSE <<>>
          /\ failures' = IF o.kind = "ok" THEN {}
                         ELSE {<<o.username, "collect", o.kind>>}
  /\ pc' = "collected"
  /\ now' = now + 1
  /\ NoSync /\ NoCall
  /\ UNCHANGED <<users, analyticsVars>>

\* ------------------------------------- DatabaseManager.reset_user_tracking
\* the method called on its own, for any username: the UPDATE of a username
\* without a row changes no row and raises nothing, the DELETEs follow, and
\* True is returned; False only from the except branch, the transaction
\* rolled back
ResetOutcomes == {"ok", "db_error"}

ResetUserTracking ==
  /\ CanStart
  /\ \E u \in Usernames, prev \in {NoDate, 0}, outcome \in ResetOutcomes :
       /\ users' = IF outcome = "ok"
                   THEN reset_user_tracking(users, u, now + 1, prev) ELSE users
       /\ daily_activity' = IF outcome = "ok"
                            THEN DeleteActivityOf(daily_activity, u)
                            ELSE daily_activity
       /\ returned' = ReturnedFor(u, outcome = "ok")
       /\ failures' = IF outcome = "ok" THEN {}
                      ELSE {<<u, "reset", outcome>>}
  /\ pc' = "reset"
  /\ now' = now + 1
  /\ NoSync /\ NoCollect
  /\ UNCHANGED <<jobs, analyticsVars>>

NextStore == ResetUserTracking

SpecStore == Init /\ [][NextStore]_vars

\* ------------------------------------------------------------------ Next
Next ==
  \/ SyncStart \/ SyncAddNew \/ SyncBeginLeft \/ SyncHandleLeft
  \/ SyncBeginRejoin \/ SyncCheckRejoined \/ SyncReturn
  \/ ForceResyncStart \/ ForceAddNew \/ ForceResyncReturn
  \/ ManualAddUser \/ ManualRemoveUser
  \/ CollectActivities

Spec == Init /\ [][Next]_vars

TypeOK ==
  /\ now \in Timestamps
  /\ pc \in {"idle", "new", "left", "rejoin", "synced", "force", "forced",
            "collected", "reset"}
  /\ \A i \in DOMAIN users : users[i].username \in Usernames

\* ===================================================================
\* Activity collection and scoring of one account
\* (AnalyticsCollector.get_user_blockchain_activity over
\* HiveAPIClient.get_user_blockchain_activity).  A score is a number of
\* tenths: engagement_score 0.1 is 1.
\* ===================================================================
Account == "alice"

\* the ticks of the two days an account history spans; the clock of the
\* analytics runs stands at the last of them
HistoryTimes == 0..(2 * TicksPerDay - 1)
HistoryEnd == 2 * TicksPerDay - 1
QueryDates == {Day(t) : t \in HistoryTimes}

\* one entry of get_account_history: the operation type, the parent_author
\* of a comment operation, and the timestamp
Operation(type, parent_author, timestamp) ==
  [type |-> type, parent_author |-> parent_author, timestamp |-> timestamp]

Operations ==
  {Operation("comment", pa, t) : pa \in {"", "bob"}, t \in HistoryTimes}
    \cup {Operation(ty, "", t) : ty \in {"vote", "transfer"}, t \in HistoryTimes}

\* the histories of at most MaxHistory operations, oldest first
Histories ==
  {h \in UNION {[1..n -> Operations] : n \in 0..MaxHistory} :
     \A i \in 1..(Len(h) - 1) : h[i].timestamp <= h[i + 1].timestamp}

Min(a, b) == IF a <= b THEN a ELSE b

\* the positions of the history the client keeps: op_time >= start_date,
\* start_date = utcnow() - timedelta(days)
RecentPositions(history, utcnow, days) ==
  {i \in DOMAIN history : history[i].timestamp >= utcnow - days * TicksPerDay}

RECURSIVE SubSeqAt(_, _)
\* the entries of s at the positions P, in order
SubSeqAt(s, P) ==
  IF P = {} THEN <<>>
  ELSE LET i == CHOOSE k \in P : \A j \in P : k <= j
       IN <<s[i]>> \o SubSeqAt(s, P \ {i})

\* HiveAPIClient.get_user_blockchain_activity(username, days)
api_get_user_blockchain_activity(history, utcnow, days) ==
  SubSeqAt(history, RecentPositions(history, utcnow, days))

\* fault injection: every comment operation is taken as a post
IsPost_AnyComment(a) == a.type = "comment"

IsPost(a) == a.type = "comment" /\ a.parent_author = ""
IsComment(a) == a.type = "comment" /\ a.parent_author # ""
IsVote(a) == a.type = "vote"

UserActivity(u, posts, comments, given, received, score) ==
  [username |-> u, posts_count |-> posts, comments_count |-> comments,
   upvotes_given |-> given, upvotes_received |-> received,
   engagement_score |-> score]

\* min(total_activity * 0.1, 10.0), in tenths
EngagementOfTotal(total_activity) == Min(total_activity, 100)

\* the body of AnalyticsCollector.get_user_blockchain_activity once the
\* client has returned raw
CountActivity(u, raw) ==
  LET posts_count == Len(SelectSeq(raw, IsPost))
      comments_count == Len(SelectSeq(raw, IsComment))
      upvotes_given == Len(SelectSeq(raw, IsVote))
  IN UserActivity(u, posts_count, comments_count, upvotes_given, 0,
                  EngagementOfTotal(posts_count + comments_count + upvotes_given))

\* get_user_blockchain_activity(username, date): the date is not passed on,
\* the client is asked for days=1.  When the client's API call fails it
\* returns [], and when the client raises the except branch returns
\* UserActivity(username): the same record of zeros either way.
GetUserBlockchainActivity ==
  /\ pc \in {"history", "activity"}
  /\ \E d \in QueryDates, api_ok \in BOOLEAN :
       LET kept == IF api_ok THEN RecentPositions(account_history, now, 1) ELSE {}
           raw == IF api_ok
                  THEN api_get_user_blockchain_activity(account_history, now, 1)
                  ELSE <<>>
       IN /\ raw_activities' = raw
          /\ activity' = CountActivity(Account, raw)
          /\ counted' =
                [x \in DOMAIN counted \cup {d} |->
                   IF x = d
                   THEN {i \in kept : account_history[i].type \in {"comment", "vote"}}
                   ELSE counted[x]]
  /\ pc' = "activity"
  /\ UNCHANGED <<users, daily_activity, bot_logs, now, result, syncVars,
                 collectVars, runVars, account_history, activities, top_performers,
                 community_stats, patacoins, community_stats_table>>

\* ===================================================================
\* Statistics over a list of UserActivity
\* (calculate_community_stats_from_members, _calculate_health_index,
\* identify_top_performers, and the patacoins the report reads).
\* health_index and patacoins are numbers of hundredths.
\* ===================================================================
\* engagement scores a list may carry, in tenths: 0.0, 0.5 and 2000.0
Scores == {0, 5, 20000}

\* the votes a record may have given: the small counts, and the five votes
\* that make one point of upvotes_given // 5
VoteCounts == (0..MaxCount) \cup {5}

ActivityRecords ==
  {UserActivity(u, p, c, g, r, sc) :
     u \in Usernames, p \in 0..MaxCount, c \in 0..MaxCount,
     g \in VoteCounts, r \in 0..1, sc \in Scores}

\* the lists that hold at most one record of a username
ActivityLists ==
  {l \in UNION {[1..n -> ActivityRecords] : n \in 0..Cardinality(Usernames)} :
     \A i, j \in DOMAIN l : l[i].username = l[j].username => i = j}

RECURSIVE SumSeq(_)
SumSeq(ns) == IF ns = <<>> THEN 0 ELSE Head(ns) + SumSeq(Tail(ns))

PostsOf(l) == [i \in DOMAIN l |-> l[i].posts_count]
CommentsOf(l) == [i \in DOMAIN l |-> l[i].comments_count]
VotesGivenOf(l) == [i \in DOMAIN l |-> l[i].upvotes_given]
VotesReceivedOf(l) == [i \in DOMAIN l |-> l[i].upvotes_received]
ScoresOf(l) == [i \in DOMAIN l |-> l[i].engagement_score]
NamesOf(l) == [i \in DOMAIN l |-> l[i].username]

\* round(a / n) to the nearest integer, a tie going to the even one
RoundDiv(a, n) ==
  LET q == a \div n
      r == a % n
  IN IF 2 * r < n THEN q
     ELSE IF 2 * r > n THEN q + 1
     ELSE IF q % 2 = 0 THEN q ELSE q + 1

\* fault injection: the index is not capped at 100
calculate_health_index_NoCap(l) ==
  IF l = <<>> THEN 0
  ELSE LET n == Len(l)
           total_engagement == SumSeq(ScoresOf(l))
           high_engagement_users ==
             Cardinality({i \in DOMAIN l : l[i].engagement_score * n > total_engagement})
       IN RoundDiv(total_engagement + 5000 * high_engagement_users, n)

\* _calculate_health_index: round(min(100, avg_engagement / 10 +
\* engagement_distribution * 0.5), 2), where avg_engagement is
\* total_engagement / n and engagement_distribution is
\* high_engagement_users / n * 100
calculate_health_index(l) ==
  IF l = <<>> THEN 0
  ELSE LET n == Len(l)
           total_engagement == SumSeq(ScoresOf(l))
           high_engagement_users ==
             Cardinality({i \in DOMAIN l : l[i].engagement_score * n > total_engagement})
       IN Min(10000, RoundDiv(total_engagement + 5000 * high_engagement_users, n))

\* a float that is a quotient, kept exact
Ratio(num, den) == [num |-> num, den |-> den]

\* get_new_members_count(days): active rows with created_at >= now - days
get_new_members_count(tbl, t, days) ==
  Cardinality({i \in DOMAIN tbl :
                 tbl[i].is_active /\ tbl[i].created_at >= t - days * TicksPerDay})

\* fault injection: only the votes given are totalled
TotalUpvotes_GivenOnly(total_votes_given, total_votes_received) == total_votes_given

TotalUpvotes(total_votes_given, total_votes_received) ==
  total_votes_given + total_votes_received

IsActiveRecord(a) == a.posts_count > 0 \/ a.comments_count > 0 \/ a.upvotes_given > 0

\* the dict calculate_community_stats_from_members builds
CommunityStats(l, d, new_members_today) ==
  LET total_members == Len(l)
      active_users == Len(SelectSeq(l, IsActiveRecord))
  IN [called |-> TRUE, failed |-> FALSE, date |-> d,
      total_members |-> total_members,
      active_users |-> active_users,
      total_posts |-> SumSeq(PostsOf(l)),
      total_comments |-> SumSeq(CommentsOf(l)),
      total_upvotes |-> TotalUpvotes(SumSeq(VotesGivenOf(l)), SumSeq(VotesReceivedOf(l))),
      new_members |-> new_members_today,
      engagement_rate |-> IF total_members > 0
                          THEN Ratio(active_users * 100, total_members)
                          ELSE Ratio(0, 1),
      health_index |-> calculate_health_index(l),
      total_votes_given |-> SumSeq(VotesGivenOf(l)),
      total_votes_received |-> SumSeq(VotesReceivedOf(l))]

\* the dict its except branch returns
FailedStats(d) ==
  [called |-> TRUE, failed |-> TRUE, date |-> d, total_members |-> 0,
   active_users |-> 0, total_posts |-> 0, total_comments |-> 0,
   total_votes_given |-> 0, total_votes_received |-> 0, new_members |-> 0,
   engagement_rate |-> Ratio(0, 1), health_index |-> 0]

\* INSERT OR REPLACE INTO community_stats: date is the PRIMARY KEY
store_community_stats(tbl, stats) ==
  Append(SelectSeq(tbl, LAMBDA r : r.date # stats.date),
         [date |-> stats.date, active_users |-> stats.active_users,
          total_posts |-> stats.total_posts,
          total_comments |-> stats.total_comments,
          total_upvotes |-> stats.total_upvotes,
          engagement_rate |-> stats.engagement_rate,
          health_index |-> stats.health_index])

CalculateCommunityStats ==
  /\ pc = "list"
  /\ \E stored \in BOOLEAN :
       LET stats == CommunityStats(activities, Day(now),
                                    get_new_members_count(users, now, 1))
       IN /\ community_stats' = IF stored THEN stats ELSE FailedStats(Day(now))
          /\ community_stats_table' =
                IF stored THEN store_community_stats(community_stats_table, stats)
                ELSE community_stats_table
  /\ pc' = "aggregated"
  /\ UNCHANGED <<users, daily_activity, bot_logs, now, result, syncVars,
                 collectVars, runVars, account_history, raw_activities, activity,
                 counted, activities, top_performers, patacoins>>

\* max(list, key=...): the position of the first entry with the largest key
FirstMaxPos(keys) ==
  CHOOSE i \in DOMAIN keys :
     /\ \A j \in DOMAIN keys : keys[j] <= keys[i]
     /\ \A j \in 1..(i - 1) : keys[j] < keys[i]

\* [u for u in list if key(u) == key(top)], as usernames
TiedAtMax(l, keys) ==
  IF l = <<>> THEN <<>>
  ELSE SubSeqAt(NamesOf(l), {i \in DOMAIN l : keys[i] = keys[FirstMaxPos(keys)]})

MaxKey(keys) == IF keys = <<>> THEN 0 ELSE keys[FirstMaxPos(keys)]

\* min(posts_count, comments_count, upvotes_given // 5)
BalanceOf(l) ==
  [i \in DOMAIN l |->
     Min(l[i].posts_count, Min(l[i].comments_count, l[i].upvotes_given \div 5))]

\* _find_rising_star
find_rising_star(l) ==
  IF l = <<>> THEN [username |-> NoUser]
  ELSE [username |-> l[FirstMaxPos(ScoresOf(l))].username,
        engagement_score |-> MaxKey(ScoresOf(l)),
        improvement |-> "N/A"]

\* _find_consistent_contributor: the score reported is balanced_users[0][1]
find_consistent_contributor(l) ==
  IF l = <<>> THEN [username |-> NoUser]
  ELSE [username |-> l[FirstMaxPos(BalanceOf(l))].username,
        consistency_score |-> BalanceOf(l)[1],
        days_active |-> "N/A"]

identify_top_performers(l) ==
  [called |-> TRUE,
   top_poster |-> [users |-> TiedAtMax(l, PostsOf(l)), count |-> MaxKey(PostsOf(l))],
   top_commenter |-> [users |-> TiedAtMax(l, CommentsOf(l)),
                      count |-> MaxKey(CommentsOf(l))],
   top_supporter |-> [users |-> TiedAtMax(l, VotesGivenOf(l)),
                      count |-> MaxKey(VotesGivenOf(l))],
   top_engagement |-> [user |-> IF l = <<>> THEN NoUser
                                ELSE l[FirstMaxPos(ScoresOf(l))].username,
                       score |-> MaxKey(ScoresOf(l))],
   rising_star |-> find_rising_star(l),
   consistent_contributor |-> find_consistent_contributor(l)]

IdentifyTopPerformers ==
  /\ pc = "aggregated"
  /\ top_performers' = identify_top_performers(activities)
  /\ pc' = "ranked"
  /\ UNCHANGED <<users, daily_activity, bot_logs, now, result, syncVars,
                 collectVars, runVars, account_history, raw_activities, activity,
                 counted, activities, community_stats, patacoins,
                 community_stats_table>>

\* getattr(activity, 'patacoins_earned', 0.0): the collector's UserActivity
\* has no such attribute and nothing assigns one
PatacoinsEarned(a) == 0

\* _get_patacoins_for_user
get_patacoins_for_user(l, u) ==
  IF \E i \in DOMAIN l : l[i].username = u
  THEN PatacoinsEarned(l[CHOOSE i \in DOMAIN l :
                           /\ l[i].username = u
                           /\ \A j \in 1..(i - 1) : l[j].username # u])
  ELSE 0

\* generate_individual_spotlight_section: the patacoins read for the report
ReportPatacoins ==
  /\ pc = "ranked"
  /\ patacoins' = [u \in Range(NamesOf(activities)) |->
                      get_patacoins_for_user(activities, u)]
  /\ pc' = "reported"
  /\ UNCHANGED <<users, daily_activity, bot_logs, now, result, syncVars,
                 collectVars, runVars, account_history, raw_activities, activity,
                 counted, activities, top_performers, community_stats,
                 community_stats_table>>

\* ------------------------------------------------ analytics specification
\* a run starts from an account history to collect from, or from a list of
\* UserActivity to compute statistics over
InitAnalytics ==
  /\ users = <<>> /\ daily_activity = <<>> /\ bot_logs = <<>>
  /\ current_followers = {} /\ tracked_members = {}
  /\ new_members = {} /\ left_members = {} /\ todo = {}
  /\ added_count = 0 /\ removed_count = 0 /\ rejoined_count = 0
  /\ result = ZeroResult
  /\ fetch_failed = FALSE
  /\ added = {} /\ removed = {} /\ rejoined = {} /\ failures = {}
  /\ users0 = users /\ daily0 = daily_activity
  /\ computed = NothingComputed /\ user_activities = <<>>
  /\ now = HistoryEnd
  /\ raw_activities = <<>>
  /\ activity = NoActivity
  /\ counted = NothingCounted
  /\ top_performers = NoPerformers
  /\ community_stats = NoStats
  /\ patacoins = NoPatacoins
  /\ community_stats_table = <<>>
  /\ returned = NoReturn
  /\ jobs = NoJobs
  /\ \/ pc = "history" /\ account_history \in Histories /\ activities = <<>>
     \/ pc = "list" /\ account_history = <<>> /\ activities \in ActivityLists

NextAnalytics ==
  \/ GetUserBlockchainActivity
  \/ CalculateCommunityStats
  \/ IdentifyTopPerformers
  \/ ReportPatacoins

SpecAnalytics == InitAnalytics /\ [][NextAnalytics]_vars

\* ===================================================================
\* The report cycle and the threads that run it
\* (ReportScheduler._generate_daily_report on the worker thread of the
\* BackgroundScheduler, ReportScheduler.trigger_manual_report on the thread
\* of its caller; both call HiveEcuadorPulse.create_daily_report, which
\* runs AnalyticsCollector.collect_daily_data_with_member_sync).  The store
\* is shared; what a cycle holds in its local variables is in jobs[t].
\* The calls of a cycle succeed here, the store of the collected records
\* excepted: the failures of a sync are the matter of Spec.
\* ===================================================================
RECURSIVE AddAll(_, _, _)
\* for username in new_members: _add_new_member(username)
AddAll(tbl, S, t) ==
  IF S = {} THEN tbl
  ELSE LET u == CHOOSE x \in S : TRUE
       IN AddAll(add_user_with_join_date(tbl, u, t), S \ {u}, t)

RECURSIVE DeactivateAll(_, _, _)
\* for username in left_members: _handle_member_left(username)
DeactivateAll(tbl, S, t) ==
  IF S = {} THEN tbl
  ELSE LET u == CHOOSE x \in S : TRUE
       IN DeactivateAll(deactivate_user_with_leave_date(tbl, u, t), S \ {u}, t)

\* the users table a sync whose calls all succeed leaves: the rejoin loop
\* finds the rows of new_members rewritten with a joined: tag only and
\* resets none
SyncedUsers(tbl, F, t) ==
  LET T == get_tracked_users(tbl)
  IN DeactivateAll(AddAll(tbl, NewMembers(F, T), t), LeftMembers(F, T), t)

\* the MembershipChange entries that sync logs
SyncedLogs(tbl, F, t) ==
  LET T == get_tracked_users(tbl)
      new == SeqOfSet(NewMembers(F, T))
      left == SeqOfSet(LeftMembers(F, T))
  IN [i \in DOMAIN new |-> MembershipChange(new[i], "joined", t, NoDate)]
       \o [i \in DOMAIN left |-> MembershipChange(left[i], "left", t, NoDate)]

\* the UserActivity of a collected record: posts only
AsUserActivity(r) ==
  UserActivity(r.username, r.posts_count, 0, 0, 0, EngagementOfTotal(r.posts_count))

AsUserActivities(acts) == [i \in DOMAIN acts |-> AsUserActivity(acts[i])]

\* create_daily_report(date) is entered on thread t.  The job of the
\* scheduler has max_instances 1, and a caller is one thread: a thread
\* runs one cycle at a time.  Nothing is held or tested that another
\* thread could see.
JobStart(t) ==
  /\ jobs[t].pos = "idle"
  /\ now < MaxOps
  /\ now' = now + 1
  /\ jobs' = [jobs EXCEPT ![t] = [IdleJob EXCEPT !.pos = "sync",
                                                 !.date = Day(now + 1)]]
  /\ UNCHANGED <<users, daily_activity, bot_logs, pc, result, syncVars,
                 collectVars, returned, analyticsVars>>

\* step 1: sync_results = self.member_manager.sync_community_members()
JobSync(t) ==
  /\ jobs[t].pos = "sync"
  /\ \E f \in FollowerFetches :
       /\ users' = SyncedUsers(users, f.followers, now)
       /\ bot_logs' = SyncedLogs(users, f.followers, now)
       /\ jobs' = [jobs EXCEPT ![t].pos = "collect",
                               ![t].followers = f.followers,
                               ![t].synced =
                                  get_tracked_users(SyncedUsers(users, f.followers, now))]
  /\ UNCHANGED <<daily_activity, now, pc, result, syncVars, collectVars,
                 returned, analyticsVars>>

\* step 2: user_activities = self.get_user_activities_blockchain_wide(date)
JobCollect(t) ==
  /\ jobs[t].pos = "collect"
  /\ \E n \in PostCounts, stored \in BOOLEAN :
       LET posts == [u \in Usernames |-> n]
           acts == CollectedActivities(users, jobs[t].date, posts)
       IN /\ daily_activity' =
                IF stored THEN store_user_activities(daily_activity, acts)
                ELSE daily_activity
          /\ jobs' = [jobs EXCEPT ![t].pos = "stats",
                                  ![t].records = IF stored THEN acts ELSE <<>>]
  /\ UNCHANGED <<users, bot_logs, now, pc, result, syncVars, collectVars,
                 returned, analyticsVars>>

\* step 3: community_stats =
\*   self.calculate_community_stats_from_members(user_activities, date)
JobStats(t) ==
  /\ jobs[t].pos = "stats"
  /\ LET stats == CommunityStats(AsUserActivities(jobs[t].records), jobs[t].date,
                                 get_new_members_count(users, now, 1))
     IN /\ community_stats_table' = store_community_stats(community_stats_table, stats)
        /\ jobs' = [jobs EXCEPT ![t].pos = "rank", ![t].stats = stats]
  /\ UNCHANGED <<users, daily_activity, bot_logs, now, pc, result, syncVars,
                 collectVars, returned, account_history, raw_activities,
                 activity, counted, activities, top_performers,
                 community_stats, patacoins>>

\* step 6: top_performers = self.identify_top_performers(user_activities)
JobRank(t) ==
  /\ jobs[t].pos = "rank"
  /\ jobs' = [jobs EXCEPT ![t].pos = "report",
                          ![t].top = identify_top_performers(
                                        AsUserActivities(jobs[t].records))]
  /\ UNCHANGED <<users, daily_activity, bot_logs, now, pc, result, syncVars,
                 collectVars, returned, analyticsVars>>

\* the charts and the report are built from the dict and create_daily_report
\* returns.  A run follows one firing of the job and one call of
\* trigger_manual_report: the thread does not start again.
JobReturn(t) ==
  /\ jobs[t].pos = "report"
  /\ jobs' = [jobs EXCEPT ![t] = [IdleJob EXCEPT !.pos = "returned"]]
  /\ UNCHANGED <<users, daily_activity, bot_logs, now, pc, result, syncVars,
                 collectVars, returned, analyticsVars>>

NextScheduler ==
  \E t \in Threads :
     \/ JobStart(t) \/ JobSync(t) \/ JobCollect(t)
     \/ JobStats(t) \/ JobRank(t) \/ JobReturn(t)

SpecScheduler == Init /\ [][NextScheduler]_vars

\* ------------------------------------------------------------ properties
InSync == pc \in {"new", "left", "rejoin", "synced"}
Synced == pc = "synced"

\* the calls made for u in the running operation all succeeded
Failed(u) == \E f \in failures : f[1] = u
\* the store mutation of a handler called for u raised
DbFailed(u) == \E f \in failures : f[1] = u /\ f[3] = "db_error"

\* the MembershipChange entries logged since the operation began
NewLogs == bot_logs
LoggedCount(u, action) ==
  Cardinality({i \in DOMAIN NewLogs :
                 NewLogs[i].username = u /\ NewLogs[i].action = action})

HasMarker(tags, kind) == \E i \in DOMAIN tags : tags[i].kind = kind
ActivityOf(tbl, u) == SelectSeq(tbl, LAMBDA r : r.username = u)

\* C1: if a Member row's tags contain a left: marker and the username is
\* again in the follower set, then after sync_community_members returns the
\* store holds no daily_activity row of that username.  Stated for the syncs
\* in which no call failed.
C1_RejoinResetsHistory ==
  (Synced /\ failures = {} /\ ~fetch_failed) =>
     \A u \in current_followers :
        (HasRow(users0, u) /\ HasMarker(RowOf(users0, u).tags, "left"))
           => ActivityOf(daily_activity, u) = <<>>

\* C2: a username of followers - tracked whose row has tags with left: or
\* previous_member: is processed as a rejoin: counted in rejoined_members,
\* row active, created_at reset to the sync time, a rejoined: marker in
\* tags, a MembershipChange 'rejoined' logged.  Stated for the syncs in
\* which no call failed.
C2_PriorMemberIsRejoined ==
  (Synced /\ failures = {} /\ ~fetch_failed) =>
     \A u \in new_members :
        (HasRow(users0, u) /\ HasPreviousMembership(RowOf(users0, u).tags))
           => /\ u \in rejoined
              /\ result.rejoined_members = Cardinality(rejoined)
              /\ HasRow(users, u)
              /\ RowOf(users, u).is_active
              /\ RowOf(users, u).created_at = now
              /\ HasMarker(RowOf(users, u).tags, "rejoined")
              /\ LoggedCount(u, "rejoined") = 1

\* usernames the new-member pass has called _add_new_member for
AddVisited == added \cup {f[1] : f \in {g \in failures : g[2] = "add"}}
\* usernames the rejoin pass has acted on
RejoinActed == rejoined \cup {f[1] : f \in {g \in failures : g[2] = "rejoin"}}

\* C3: within a sync the rejoin pass acts only once the new-member pass has
\* visited every new member; a follower without a row before the sync, once
\* created, carries only its fresh joined: marker and is never reset or
\* counted as rejoined; no username is counted both as new and as rejoined.
C3_RejoinAfterNewPass ==
  InSync =>
     /\ (RejoinActed # {} \/ pc \in {"rejoin", "synced"}) => new_members \subseteq AddVisited
     /\ added \cap rejoined = {}
     /\ \A u \in current_followers :
          ~HasRow(users0, u) =>
             /\ u \notin rejoined
             /\ HasRow(users, u) =>
                   /\ u \in added
                   /\ Len(RowOf(users, u).tags) = 1
                   /\ RowOf(users, u).tags[1].kind = "joined"

C3_Witness ==
  /\ Synced
  /\ \E u \in added : ~HasRow(users0, u) /\ u \notin rejoined
  /\ \E v \in rejoined : HasRow(users0, v)

C6_LeftMemberDeactivated ==
  Synced =>
     \A u \in tracked_members \ current_followers :
        ~Failed(u) =>
           /\ HasRow(users, u)
           /\ ~RowOf(users, u).is_active
           /\ RowOf(users, u).updated_at = now
           /\ RowOf(users, u).created_at = RowOf(users0, u).created_at
           /\ RowOf(users, u).tags =
                 Append(RowOf(users0, u).tags,
                        Marker("left", RowOf(users, u).updated_at))
           /\ u \in removed
           /\ result.left_members = Cardinality(removed)
           /\ LoggedCount(u, "left") = 1

C6_Witness ==
  /\ Synced
  /\ \E u \in tracked_members \ current_followers :
        /\ ~Failed(u)
        /\ RowOf(users0, u).tags # <<>>
        /\ ~RowOf(users, u).is_active

\* C7: tags are append-only: the markers a row has before a step of the sync
\* (join, leave, rejoin) are still there, in the same order, after it.
C7_TagsAppendOnly ==
  [][(pc \in {"new", "left", "rejoin"}) =>
       (\A u \in Usernames :
           (HasRow(users, u) /\ HasRow(users', u))
              => IsPrefix(RowOf(users, u).tags, RowOf(users', u).tags))]_vars

\* C8: the users table never holds two rows of one username, whatever
\* syncs, manual add_user / remove_user and force resyncs have run.
C8_OneRowPerUsername ==
  \A i, j \in DOMAIN users : users[i].username = users[j].username => i = j

\* a join over a row that already exists has been applied
C8_Witness ==
  /\ pc \in {"synced", "idle"}
  /\ Len(users) = Cardinality(Usernames)
  /\ \E u \in Usernames :
        /\ HasRow(users0, u) /\ HasRow(users, u)
        /\ RowOf(users, u).created_at > RowOf(users0, u).created_at

\* C9: if the follower fetch fails, the sync returns five zero counts and
\* applies no membership transition.
C9_FetchFailureIsZeroResult ==
  (InSync /\ fetch_failed) =>
     /\ users = users0
     /\ daily_activity = daily0
     /\ Synced => result = ZeroResult

\* C10: when the store mutation for a username fails during a sync, every
\* other username of new and left still gets its transition, and the failed
\* username is counted in none of the new / left / rejoined totals.
C10_FailedUserSkipped ==
  Synced =>
     \A u \in Usernames :
        DbFailed(u) =>
           /\ u \notin added /\ u \notin removed /\ u \notin rejoined
           /\ \A v \in (new_members \cup left_members) \ {u} :
                ~Failed(v) => (v \in added \/ v \in removed)

\* the last operation was a collection
Collected == pc = "collected"
CollectFailed(kind) == \E f \in failures : f[2] = "collect" /\ f[3] = kind
RowsOfKey(tbl, d, u) == SelectSeq(tbl, LAMBDA r : r.date = d /\ r.username = u)

\* C11: when collecting or persisting the activity of one user fails, the
\* records computed for the other users are still stored and still returned
\* to the caller.
C11_BatchToleratesSingleFailure ==
  Collected =>
     \A f \in failures :
        \A i \in DOMAIN computed.records :
           computed.records[i].username # f[1] =>
              /\ computed.records[i] \in Range(user_activities)
              /\ computed.records[i] \in Range(daily_activity)

\* C12: after activity has been stored for a (username, date), however many
\* times, daily_activity holds exactly one row of that key and its counts
\* are those of the last stored record.
C12_IdempotentUpsert ==
  /\ \A i, j \in DOMAIN daily_activity :
        (/\ daily_activity[i].date = daily_activity[j].date
         /\ daily_activity[i].username = daily_activity[j].username) => i = j
  /\ (Collected /\ ~CollectFailed("db_error")) =>
        \A i \in DOMAIN computed.records :
           RowsOfKey(daily_activity, computed.date, computed.records[i].username)
              = <<computed.records[i]>>

\* a record has been stored over a row of its key that held other counts
C12_Witness ==
  /\ Collected /\ ~CollectFailed("db_error")
  /\ \E i \in DOMAIN computed.records :
        LET old == RowsOfKey(daily0, computed.date, computed.records[i].username)
        IN /\ old # <<>>
           /\ old[1].posts_count > 0
           /\ computed.records[i].posts_count > 0

\* C13: a collection for a date produces no record for a tracked member
\* whose join day (created_at) is after that date, and a record for every
\* tracked member whose join day is on or before it.
C13_Eligibility ==
  (Collected /\ failures = {}) =>
     \A i \in DOMAIN users :
        users[i].is_active =>
           LET has == \E k \in DOMAIN user_activities :
                         user_activities[k].username = users[i].username
           IN IF Day(users[i].created_at) > computed.date THEN ~has ELSE has

\* C14: the operations counted for a date are operations of that day, so
\* the calls for two different dates over one history count disjoint sets
\* of operations.
C14_CountsOnlyTheDate ==
  /\ \A d \in DOMAIN counted :
        \A i \in counted[d] : Day(account_history[i].timestamp) = d
  /\ \A d1, d2 \in DOMAIN counted :
        d1 # d2 => counted[d1] \cap counted[d2] = {}

\* C15: the record get_user_blockchain_activity returns has
\* engagement_score = posts*10 + comments*5 + upvotes_given*2 +
\* upvotes_received*1 (in tenths: 100, 50, 20 and 10 a piece).
C15_EngagementScoreFormula ==
  pc = "activity" =>
     activity.engagement_score =
        activity.posts_count * 100 + activity.comments_count * 50
          + activity.upvotes_given * 20 + activity.upvotes_received * 10

\* the number of raw operations that satisfy P
NumberOf(raw, P(_)) == Cardinality({i \in DOMAIN raw : P(raw[i])})

\* C16: for the list of raw operations the collector was given, posts_count
\* is the number of comment operations with an empty parent_author,
\* comments_count the number with a non-empty one, upvotes_given the
\* number of vote operations, upvotes_received is 0, and no other
\* operation is counted.
C16_ClassificationCounts ==
  pc = "activity" =>
     /\ activity.posts_count =
           NumberOf(raw_activities, LAMBDA a : a.type = "comment" /\ a.parent_author = "")
     /\ activity.comments_count =
           NumberOf(raw_activities, LAMBDA a : a.type = "comment" /\ a.parent_author # "")
     /\ activity.upvotes_given = NumberOf(raw_activities, LAMBDA a : a.type = "vote")
     /\ activity.upvotes_received = 0
     /\ activity.posts_count + activity.comments_count + activity.upvotes_given
           = NumberOf(raw_activities, LAMBDA a : a.type \in {"comment", "vote"})

\* a post, a comment and an operation of another kind have been classified
C16_Witness ==
  /\ pc = "activity"
  /\ activity.posts_count = 1 /\ activity.comments_count = 1
  /\ \E i \in DOMAIN raw_activities : raw_activities[i].type = "transfer"

\* C17: every top_X category of identify_top_performers holds the set of
\* all usernames whose metric is the maximum, and that maximum; for the
\* empty list it holds no username and the value 0.
C17_TopPerformersKeepTies ==
  top_performers.called =>
     LET l == activities
         AtMax(keys) ==
           {l[i].username :
              i \in {j \in DOMAIN l : \A k \in DOMAIN l : keys[k] <= keys[j]}}
         Largest(keys) ==
           IF l = <<>> THEN 0
           ELSE CHOOSE m \in Range(keys) : \A k \in DOMAIN l : keys[k] <= m
         top_engagement_users ==
           IF top_performers.top_engagement.user = NoUser THEN {}
           ELSE {top_performers.top_engagement.user}
     IN /\ Range(top_performers.top_poster.users) = AtMax(PostsOf(l))
        /\ top_performers.top_poster.count = Largest(PostsOf(l))
        /\ Range(top_performers.top_commenter.users) = AtMax(CommentsOf(l))
        /\ top_performers.top_commenter.count = Largest(CommentsOf(l))
        /\ Range(top_performers.top_supporter.users) = AtMax(VotesGivenOf(l))
        /\ top_performers.top_supporter.count = Largest(VotesGivenOf(l))
        /\ top_engagement_users = AtMax(ScoresOf(l))
        /\ top_performers.top_engagement.score = Largest(ScoresOf(l))

\* C18: the patacoins_earned of every activity record is posts*2.0 +
\* comments*0.5 + min(upvotes_given*0.02, 0.5) + upvotes_received*0.1
\* (in hundredths: 200, 50, min(2 * given, 50) and 10 a piece).
C18_PatacoinReward ==
  pc = "reported" =>
     \A i \in DOMAIN activities :
        patacoins[activities[i].username] =
           activities[i].posts_count * 200 + activities[i].comments_count * 50
             + Min(activities[i].upvotes_given * 2, 50)
             + activities[i].upvotes_received * 10

\* C19: the health index of a list of records with non-negative engagement
\* scores is between 0 and 100, and is 0 for the empty list.
C19_HealthIndexBounds ==
  community_stats.called =>
     /\ community_stats.health_index >= 0
     /\ community_stats.health_index <= 10000
     /\ activities = <<>> => community_stats.health_index = 0

\* the cap is what bounds the index
C19_Witness ==
  /\ community_stats.called /\ ~community_stats.failed
  /\ community_stats.health_index = 10000
  /\ SumSeq(ScoresOf(activities)) > 10000 * Len(activities)

RECURSIVE SumOver(_, _)
\* the sum of f over the positions P
SumOver(f, P) ==
  IF P = {} THEN 0
  ELSE LET i == CHOOSE k \in P : TRUE IN f[i] + SumOver(f, P \ {i})

\* C20: the statistics returned for a list, when storing them succeeds,
\* are the reference aggregation: total_posts, total_comments and
\* total_upvotes (votes given + votes received) are the sums over the
\* list, total_members its length, active_users the number of records with
\* posts > 0 or comments > 0 or upvotes_given > 0, and engagement_rate is
\* active_users / total_members * 100, or 0 when the list is empty.
C20_AggregateIsReference ==
  (community_stats.called /\ ~community_stats.failed) =>
     LET l == activities
         active == Cardinality({i \in DOMAIN l :
                      \/ l[i].posts_count > 0
                      \/ l[i].comments_count > 0
                      \/ l[i].upvotes_given > 0})
         rate == community_stats.engagement_rate
     IN /\ community_stats.total_members = Len(l)
        /\ community_stats.total_posts = SumOver(PostsOf(l), DOMAIN l)
        /\ community_stats.total_comments = SumOver(CommentsOf(l), DOMAIN l)
        /\ community_stats.total_upvotes =
              SumOver(VotesGivenOf(l), DOMAIN l) + SumOver(VotesReceivedOf(l), DOMAIN l)
        /\ community_stats.active_users = active
        /\ rate.den > 0
        /\ IF Len(l) = 0 THEN rate.num = 0
           ELSE rate.num * Len(l) = active * 100 * rate.den

\* two records, one of them active, with votes given and votes received
C20_Witness ==
  /\ community_stats.called /\ ~community_stats.failed
  /\ community_stats.total_members = 2
  /\ community_stats.active_users = 1
  /\ community_stats.total_votes_given > 0
  /\ community_stats.total_votes_received > 0

\* C21: for every rejoin, the previous_join_date logged in the
\* MembershipChange and kept in the previous_member: tag equals the
\* created_at the member's row had immediately before the rejoin, on a
\* first rejoin and on every later one.
C21_PreviousJoinDateIsOldJoinDate ==
  [][\A u \in Usernames :
       (u \in rejoined' /\ u \notin rejoined) =>
          LET before == RowOf(users, u).created_at
              tags == RowOf(users', u).tags
          IN /\ \E i \in DOMAIN tags :
                   tags[i] = Marker("previous_member", before)
             /\ (Len(bot_logs') > Len(bot_logs)) =>
                   bot_logs'[Len(bot_logs')].previous_join_date = before]_vars

\* C22: after force_resync_all_members has returned True, the users table
\* holds exactly the follower set, every row is active and carries only the
\* joined: marker of this resync, and daily_activity is empty.
C22_ForceResyncRebuilds ==
  (pc = "forced" /\ returned.called /\ returned.value) =>
     /\ {users[i].username : i \in DOMAIN users} = current_followers
     /\ \A i \in DOMAIN users :
          /\ users[i].is_active
          /\ users[i].tags = <<Marker("joined", now)>>
     /\ daily_activity = <<>>

\* C23: a reset attempted on a username that has no Member row is an error
\* distinct from success: reset_user_tracking does not return True for it,
\* and it deletes no activity row.
C23_ResetOfMissingRowIsError ==
  (pc = "reset" /\ returned.called /\ ~HasRow(users0, returned.username)) =>
     /\ ~returned.value
     /\ daily_activity = daily0

\* C24: a member a sync has deactivated stays inactive through every later
\* sync whose follower set does not hold the username, and such a sync
\* neither deletes nor changes the member's daily_activity rows.
C24_InactiveStaysInactive ==
  InSync =>
     \A u \in Usernames \ current_followers :
        (/\ HasRow(users0, u)
         /\ ~RowOf(users0, u).is_active
         /\ HasMarker(RowOf(users0, u).tags, "left"))
           => /\ HasRow(users, u)
              /\ ~RowOf(users, u).is_active
              /\ ActivityOf(daily_activity, u) = ActivityOf(daily0, u)

\* the second sync of a run returns; the first one deactivated a member
\* with activity rows, who is not a follower in the second either
C24_Witness ==
  /\ Synced /\ now = 2
  /\ current_followers # {}
  /\ \E u \in Usernames \ current_followers :
        /\ HasRow(users0, u)
        /\ ~RowOf(users0, u).is_active
        /\ \E i \in DOMAIN RowOf(users0, u).tags :
              RowOf(users0, u).tags[i] = Marker("left", 1)
        /\ ActivityOf(daily0, u) # <<>>

\* the threads that are inside create_daily_report
InCycle == {t \in Threads : jobs[t].pos \notin {"idle", "returned"}}

\* C25: in every cycle the sync completes before any activity is collected,
\* the statistics are computed only after the collection and the ranking
\* after the statistics; so the records of a cycle cover only members that
\* are active after the sync of that cycle.
C25_CycleOrder ==
  \A t \in Threads :
     /\ jobs[t].pos = "sync" => jobs[t].records = <<>>
     /\ jobs[t].stats.called => jobs[t].pos \in {"rank", "report"}
     /\ jobs[t].top.called => jobs[t].stats.called
     /\ \A i \in DOMAIN jobs[t].records :
          jobs[t].records[i].username \in jobs[t].synced

\* C26: at most one collection cycle executes at any time: the job of the
\* scheduler and trigger_manual_report never run create_daily_report
\* concurrently.
C26_OneCycleAtATime == Cardinality(InCycle) <= 1

\* the usernames with is_active = 1
ActiveSet(tbl) == {tbl[i].username : i \in {j \in DOMAIN tbl : tbl[j].is_active}}

C29_TotalTrackedIsActiveCount ==
  Synced =>
     /\ result.total_tracked = Cardinality(ActiveSet(users))
     /\ result.total_followers = Cardinality(current_followers)

\* C30: for every non-empty activity list, consistent_contributor names a
\* user whose balance_score = min(posts_count, comments_count,
\* upvotes_given // 5) is the largest of the list, and the
\* consistency_score reported is the balance_score of that same user.
C30_ConsistentContributor ==
  (top_performers.called /\ activities # <<>>) =>
     LET l == activities
         cc == top_performers.consistent_contributor
         balance == [i \in DOMAIN l |->
                       Min(Min(l[i].posts_count, l[i].comments_count),
                           l[i].upvotes_given \div 5)]
     IN \E i \in DOMAIN l :
           /\ l[i].username = cc.username
           /\ \A j \in DOMAIN l : balance[j] <= balance[i]
           /\ cc.consistency_score = balance[i]

====
